---- MODULE Spec2Model ----
(***************************************************************************)
(* Model of the invoice validation engine (invoice_qc/validator.py):       *)
(* validate_invoice, the per-invoice rule evaluation, and                  *)
(* validate_invoices, the batch loop with its duplicate-key set and the    *)
(* summary it returns.                                                     *)
(*                                                                         *)
(* Amounts are fixed-point integers in tenths (1190 is 119.0), so the      *)
(* tolerance 0.5 is 5.  An Optional[str] is a string with the sentinel     *)
(* NoneStr for None; an amount is a record with kind "none" (None), "num"  *)
(* (int or float) or "text" (a str read from JSON).  An error code is the  *)
(* sequence of the lexical tokens of the string the code appends.          *)
(***************************************************************************)
EXTENDS Integers, Sequences, FiniteSets, TLC

\* ------------------------------------------------------------------ bounds

MaxBatch == 3   \* longest batch handed to validate_invoices
MaxRuns == 2    \* calls of validate_invoices on the same batch

\* ------------------------------------------------------------------ values

NoneStr == "<None>"
NoneAmt == [kind |-> "none", val |-> 0]
TextAmt == [kind |-> "text", val |-> 0]
Num(n) == [kind |-> "num", val |-> n]

\* Python truthiness of an Optional[str]: None and "" are falsy.
Truthy(s) == s # NoneStr /\ s # ""

\* `s or ""`
OrEmpty(s) == IF Truthy(s) THEN s ELSE ""

\* isinstance(value, (int, float))
IsNumeric(a) == a.kind = "num"

\* str.upper() on the currency strings of the model
Upper(s) ==
    CASE s = "eur" -> "EUR"
      [] s = "usd" -> "USD"
      [] s = "gbp" -> "GBP"
      [] OTHER -> s

\* approx_equal(a, b): |a - b| <= 0.5 (in tenths)
Tolerance == 5

Abs(x) == IF x < 0 THEN -x ELSE x

approx_equal(a, b) == Abs(a - b) <= Tolerance

\* ------------------------------------------------------------- error codes

\* The string "<category>: <detail>" as the validator writes it: the
\* category, the colon, one space, then the tokens of the detail.
ErrorCode(category, detail) == <<category, ":", " ">> \o detail

DuplicateCode == <<"duplicate_invoice">>

TotalFields == <<"net_total", "tax_amount", "gross_total">>

\* ---------------------------------------------------------- validate_invoice

\* The completeness checks with `is None` on the four strings, so that an
\* empty string passes.
CompletenessErrorsNoneOnly(inv) ==
    (IF inv.invoice_number = NoneStr
        THEN <<ErrorCode("missing_field", <<"invoice_number">>)>> ELSE <<>>)
    \o (IF inv.invoice_date = NoneStr
        THEN <<ErrorCode("missing_field", <<"invoice_date">>)>> ELSE <<>>)
    \o (IF inv.seller_name = NoneStr
        THEN <<ErrorCode("missing_field", <<"seller_name">>)>> ELSE <<>>)
    \o (IF inv.buyer_name = NoneStr
        THEN <<ErrorCode("missing_field", <<"buyer_name">>)>> ELSE <<>>)
    \o (IF inv.net_total.kind = "none"
        THEN <<ErrorCode("missing_field", <<"net_total">>)>> ELSE <<>>)
    \o (IF inv.tax_amount.kind = "none"
        THEN <<ErrorCode("missing_field", <<"tax_amount">>)>> ELSE <<>>)
    \o (IF inv.gross_total.kind = "none"
        THEN <<ErrorCode("missing_field", <<"gross_total">>)>> ELSE <<>>)

\* Lines 18-33: the seven completeness checks, in order.
CompletenessErrors(inv) ==
    (IF ~Truthy(inv.invoice_number)
        THEN <<ErrorCode("missing_field", <<"invoice_number">>)>> ELSE <<>>)
    \o (IF ~Truthy(inv.invoice_date)
        THEN <<ErrorCode("missing_field", <<"invoice_date">>)>> ELSE <<>>)
    \o (IF ~Truthy(inv.seller_name)
        THEN <<ErrorCode("missing_field", <<"seller_name">>)>> ELSE <<>>)
    \o (IF ~Truthy(inv.buyer_name)
        THEN <<ErrorCode("missing_field", <<"buyer_name">>)>> ELSE <<>>)
    \o (IF inv.net_total.kind = "none"
        THEN <<ErrorCode("missing_field", <<"net_total">>)>> ELSE <<>>)
    \o (IF inv.tax_amount.kind = "none"
        THEN <<ErrorCode("missing_field", <<"tax_amount">>)>> ELSE <<>>)
    \o (IF inv.gross_total.kind = "none"
        THEN <<ErrorCode("missing_field", <<"gross_total">>)>> ELSE <<>>)

allowed_currencies == {"EUR", "USD", "INR"}

RECURSIVE NotNumericErrors(_, _)
NotNumericErrors(inv, k) ==
    IF k > Len(TotalFields) THEN <<>>
    ELSE LET value == inv[TotalFields[k]]
         IN (IF value.kind # "none" /\ ~IsNumeric(value)
                THEN <<ErrorCode("format_error", <<TotalFields[k], "_not_numeric">>)>>
                ELSE <<>>)
            \o NotNumericErrors(inv, k + 1)

\* Lines 35-43: currency, then the type of each total.
FormatErrors(inv) ==
    (IF Truthy(inv.currency) /\ Upper(inv.currency) \notin allowed_currencies
        THEN <<ErrorCode("format_error", <<"unsupported_currency">>)>> ELSE <<>>)
    \o NotNumericErrors(inv, 1)

\* sum(li.line_total or 0.0 for li in line_items if li.line_total is not None)
RECURSIVE sum_lines(_)
sum_lines(items) ==
    IF items = <<>> THEN 0
    ELSE (IF Head(items).kind = "none" THEN 0 ELSE Head(items).val)
         + sum_lines(Tail(items))

\* The line-item rule without the `sum_lines and` guard.
LineItemErrorsNoZeroGuard(inv) ==
    IF inv.line_items # <<>> /\ inv.net_total.kind # "none"
       /\ ~approx_equal(sum_lines(inv.line_items), inv.net_total.val)
    THEN <<ErrorCode("business_rule_failed", <<"net_total_mismatch_line_items">>)>>
    ELSE <<>>

\* Lines 45-52 (reached with a numeric net_total).
LineItemErrors(inv) ==
    IF inv.line_items # <<>> /\ inv.net_total.kind # "none"
       /\ sum_lines(inv.line_items) # 0
       /\ ~approx_equal(sum_lines(inv.line_items), inv.net_total.val)
    THEN <<ErrorCode("business_rule_failed", <<"net_total_mismatch_line_items">>)>>
    ELSE <<>>

\* The totals rule evaluated always, an absent total taken as 0:
\* (net_total or 0) + (tax_amount or 0) against (gross_total or 0).
TotalsErrorsNoneAsZero(inv) ==
    IF ~approx_equal(inv.net_total.val + inv.tax_amount.val, inv.gross_total.val)
    THEN <<ErrorCode("business_rule_failed", <<"totals_mismatch">>)>>
    ELSE <<>>

\* Lines 54-63 (reached with numeric totals).
TotalsErrors(inv) ==
    IF inv.net_total.kind # "none" /\ inv.tax_amount.kind # "none"
       /\ inv.gross_total.kind # "none"
       /\ ~approx_equal(inv.net_total.val + inv.tax_amount.val, inv.gross_total.val)
    THEN <<ErrorCode("business_rule_failed", <<"totals_mismatch">>)>>
    ELSE <<>>

RECURSIVE AnomalyErrorsNonPositive(_, _)
\* The anomaly rule with `value <= 0`.
AnomalyErrorsNonPositive(inv, k) ==
    IF k > Len(TotalFields) THEN <<>>
    ELSE LET value == inv[TotalFields[k]]
         IN (IF value.kind # "none" /\ value.val <= 0
                THEN <<ErrorCode("anomaly", <<TotalFields[k], "_negative">>)>>
                ELSE <<>>)
            \o AnomalyErrorsNonPositive(inv, k + 1)

RECURSIVE AnomalyErrors(_, _)
\* Lines 65-69 (reached with numeric totals).
AnomalyErrors(inv, k) ==
    IF k > Len(TotalFields) THEN <<>>
    ELSE LET value == inv[TotalFields[k]]
         IN (IF value.kind # "none" /\ value.val < 0
                THEN <<ErrorCode("anomaly", <<TotalFields[k], "_negative">>)>>
                ELSE <<>>)
            \o AnomalyErrors(inv, k + 1)

\* A total that is a str makes `value < 0` (line 68) raise TypeError, when
\* `net_total + tax_amount` (line 61) or approx_equal has not raised before.
ValidateRaises(inv) ==
    \E k \in 1..Len(TotalFields) :
        inv[TotalFields[k]].kind # "none" /\ ~IsNumeric(inv[TotalFields[k]])

\* The key without the seller: (inv_num, inv_date, "").
DuplicateKeyNoSeller(inv) ==
    <<OrEmpty(inv.invoice_number), OrEmpty(inv.invoice_date), "">>

\* Lines 14-16 and 73: the duplicate key.
DuplicateKey(inv) ==
    <<OrEmpty(inv.invoice_number), OrEmpty(inv.invoice_date), OrEmpty(inv.seller_name)>>

\* The guard without the seller: `if inv_num and inv_date`.
HasKeyNoSeller(inv) ==
    /\ OrEmpty(inv.invoice_number) # ""
    /\ OrEmpty(inv.invoice_date) # ""

\* Line 72: inv_num and inv_date and seller_name
HasKey(inv) ==
    /\ OrEmpty(inv.invoice_number) # ""
    /\ OrEmpty(inv.invoice_date) # ""
    /\ OrEmpty(inv.seller_name) # ""

\* Lines 71-75: the error of the duplicate rule.
DuplicateErrors(inv, seen) ==
    IF HasKey(inv) /\ DuplicateKey(inv) \in seen THEN <<DuplicateCode>> ELSE <<>>

\* A key set that remembers only the most recent key.
SeenAfterLastOnly(inv, seen) ==
    IF HasKey(inv) THEN {DuplicateKey(inv)} ELSE seen

\* Lines 76-77: the key set after the invoice.
SeenAfter(inv, seen) ==
    IF HasKey(inv) /\ DuplicateKey(inv) \notin seen
    THEN seen \cup {DuplicateKey(inv)} ELSE seen

\* Validity decided from the rule errors alone, the duplicate flag left out.
IsValidBeforeDuplicate(errors) ==
    Len(SelectSeq(errors, LAMBDA e : e # DuplicateCode)) = 0

\* Line 79
IsValid(errors) == Len(errors) = 0

\* Line 80: invoice.invoice_number or invoice.source_file or "unknown"
InvoiceId(inv) ==
    IF Truthy(inv.invoice_number) THEN inv.invoice_number
    ELSE IF Truthy(inv.source_file) THEN inv.source_file
    ELSE "unknown"

\* The rules with an early exit: an incomplete invoice gets its
\* missing_field errors and nothing else.
ErrorsOfShortCircuit(inv, seen) ==
    IF CompletenessErrors(inv) # <<>> THEN CompletenessErrors(inv)
    ELSE FormatErrors(inv) \o LineItemErrors(inv) \o TotalsErrors(inv)
         \o AnomalyErrors(inv, 1) \o DuplicateErrors(inv, seen)

\* Lines 12-75: the error list, in the order the rules are evaluated.
ErrorsOf(inv, seen) ==
    CompletenessErrors(inv) \o FormatErrors(inv) \o LineItemErrors(inv)
    \o TotalsErrors(inv) \o AnomalyErrors(inv, 1) \o DuplicateErrors(inv, seen)

\* Lines 82-86: the returned dict.
validate_invoice(inv, seen) ==
    [invoice_id |-> InvoiceId(inv),
     is_valid |-> IsValid(ErrorsOf(inv, seen)),
     errors |-> ErrorsOf(inv, seen)]

\* --------------------------------------------------------- validate_invoices

\* error_counter[e] = 1
CountErrorOnce(counter, e) ==
    IF e \in DOMAIN counter THEN [counter EXCEPT ![e] = 1]
    ELSE counter @@ (e :> 1)

\* error_counter[e] += 1
CountError(counter, e) ==
    IF e \in DOMAIN counter THEN [counter EXCEPT ![e] = @ + 1]
    ELSE counter @@ (e :> 1)

RECURSIVE CountErrors(_, _)
\* Lines 99-100: the inner loop over one result's errors.
CountErrors(counter, errors) ==
    IF errors = <<>> THEN counter
    ELSE CountErrors(CountError(counter, Head(errors)), Tail(errors))

RECURSIVE error_counter(_)
\* Lines 97-100: Counter() filled over every result, in order.
error_counter(results) ==
    IF results = <<>> THEN <<>>
    ELSE CountErrors(error_counter(SubSeq(results, 1, Len(results) - 1)),
                     results[Len(results)].errors)

\* The valid results counted as a set: equal results count once.
ValidCountDistinct(results) ==
    Cardinality({r \in {results[k] : k \in 1..Len(results)} : r.is_valid})

\* Line 103: sum(1 for r in per_invoice if r["is_valid"])
ValidCount(results) ==
    Cardinality({k \in 1..Len(results) : results[k].is_valid})

\* Lines 102-111
Summary(batch, results) ==
    [total_invoices |-> Len(batch),
     valid_invoices |-> ValidCount(results),
     invalid_invoices |-> Len(batch) - ValidCount(results),
     error_counts |-> error_counter(results)]

\* Lines 113-116
Report(batch, results) ==
    [summary |-> Summary(batch, results), results |-> results]

\* A key set that outlives the call (a module-level set).
KeptKeys(old) == old

\* Line 90: seen_keys = set()
FreshKeys(old) == {}

RECURSIVE KeysAfter(_, _)
\* Lines 90-95: seen_keys after the first k iterations of the loop.
KeysAfter(batch, k) ==
    IF k = 0 THEN FreshKeys({})
    ELSE SeenAfter(batch[k], KeysAfter(batch, k - 1))

\* Lines 91-95: per_invoice after the loop.
ResultsOf(batch) ==
    [k \in 1..Len(batch) |-> validate_invoice(batch[k], KeysAfter(batch, k - 1))]

\* Lines 89-116: the report of one whole call on a batch no invoice of which
\* makes validate_invoice raise.
validate_invoices(batch) == Report(batch, ResultsOf(batch))

\* ------------------------------------------------------------------- inputs

Invoice(num, date, seller, buyer, cur, net, tax, gross, items, src) ==
    [invoice_number |-> num, invoice_date |-> date, seller_name |-> seller,
     buyer_name |-> buyer, currency |-> cur, net_total |-> net,
     tax_amount |-> tax, gross_total |-> gross, line_items |-> items,
     source_file |-> src]

\* Batches: invoices that differ in their key components, around totals
\* that are consistent (100.0 + 19.0 = 119.0), plus one with inconsistent
\* totals and one whose net_total is a string.
KeyInvoices ==
    {Invoice(num, date, "ACME", "Buyer", "EUR", Num(1000), Num(190), Num(1190),
             <<>>, IF date = NoneStr THEN NoneStr ELSE "a.pdf") :
        num \in {NoneStr, "", "INV-1", "INV-2"}, date \in {NoneStr, "2024-01-15"}}
    \cup {Invoice("INV-1", "2024-01-15", seller, "Buyer", "EUR",
                  Num(1000), Num(190), Num(1190), <<>>, "a.pdf") :
             seller \in {"", "Bolt"}}
    \cup {Invoice("INV-1", "", "ACME", "Buyer", "EUR",
                  Num(1000), Num(190), Num(1190), <<>>, NoneStr)}
    \cup {Invoice("INV-1", "2024-01-15", "ACME", "Buyer", "EUR",
                  net, Num(190), Num(1200), <<>>, "a.pdf") :
             net \in {Num(1000), TextAmt}}

Batches == UNION {[1..n -> KeyInvoices] : n \in 0..MaxBatch}

\* Single invoices over every combination of absent, empty and present
\* fields, currencies, totals and line items.
NumericInvoices ==
    {Invoice(num, date, seller, buyer, cur, net, tax, gross, items, "a.pdf") :
        num \in {NoneStr, "", "INV-1"},
        date \in {"", "2024-01-15"},
        seller \in {NoneStr, "ACME"},
        buyer \in {NoneStr, "Buyer"},
        cur \in {NoneStr, "eur", "GBP"},
        net \in {NoneAmt, Num(-50), Num(1000)},
        tax \in {NoneAmt, Num(-10), Num(190)},
        gross \in {NoneAmt, Num(1190), Num(1195), Num(1196)},
        items \in {<<>>, <<Num(1000)>>, <<Num(400), NoneAmt>>}}

\* Invoices read from JSON with a string in at least one total.
TextInvoices ==
    {inv \in
        {Invoice(num, "2024-01-15", "ACME", "Buyer", "EUR", net, tax, gross, items, "a.pdf") :
            num \in {NoneStr, "INV-1"},
            net \in {NoneAmt, TextAmt, Num(1000)},
            tax \in {NoneAmt, TextAmt, Num(190)},
            gross \in {NoneAmt, TextAmt, Num(1190)},
            items \in {<<>>, <<Num(1000)>>}} :
        \E f \in {"net_total", "tax_amount", "gross_total"} : inv[f] = TextAmt}

RuleInvoices == NumericInvoices \cup TextInvoices

\* Invoices with a complete key that differ in their amounts: totals that
\* are absent, negative, zero, consistent, off by exactly 0.5 and off by
\* more, and line items whose present totals add up to 0, to net_total, to
\* 0.5 less and to more than 0.5 less or more; one total may be a string.
AmountInvoices ==
    {Invoice("INV-1", "2024-01-15", "ACME", "Buyer", "EUR", net, tax, gross, items, "a.pdf") :
        net \in {NoneAmt, Num(-50), Num(0), Num(1000)},
        tax \in {NoneAmt, Num(-10), Num(0), Num(190)},
        gross \in {NoneAmt, Num(-60), Num(140), Num(1190), Num(1195), Num(1196),
                   Num(1200)},
        items \in {<<>>, <<NoneAmt>>, <<Num(0)>>, <<Num(1000)>>, <<Num(1006)>>,
                   <<Num(400), NoneAmt, Num(595)>>, <<Num(400), Num(594)>>,
                   <<Num(500), Num(-500)>>}}
    \cup {Invoice("INV-1", "2024-01-15", "ACME", "Buyer", "EUR", TextAmt, Num(190),
                  Num(1190), <<>>, "a.pdf")}

AmountBatches == {<<inv>> : inv \in AmountInvoices}

\* One invoice alone, or the invoice followed by a copy of itself.
RuleBatches == {<<inv>> : inv \in RuleInvoices} \cup {<<inv, inv>> : inv \in RuleInvoices}

\* ------------------------------------------------------------------ machine

VARIABLES invoices, pc, seen_keys, per_invoice, returned, arg, out, runs

vars == <<invoices, pc, seen_keys, per_invoice, returned, arg, out, runs>>

\* The variables of the extraction helpers (arg, out: the argument and the
\* return value of one call) and of the concurrent requests (runs).
others == <<arg, out, runs>>

NoCall == [status |-> "none"]

OthersIdle == arg = NoCall /\ out = NoCall /\ runs = <<>>

Init ==
    /\ invoices \in Batches
    /\ pc = "idle"
    /\ seen_keys = {}
    /\ per_invoice = <<>>
    /\ returned = <<>>
    /\ OthersIdle

\* validate_invoices is entered: lines 90-91.
Call ==
    /\ pc = "idle"
    /\ Len(returned) < MaxRuns
    /\ seen_keys' = FreshKeys(seen_keys)
    /\ per_invoice' = <<>>
    /\ pc' = "loop"
    /\ UNCHANGED <<invoices, returned>>
    /\ UNCHANGED others

\* One iteration of the loop of lines 93-95.
Step ==
    /\ pc = "loop"
    /\ Len(per_invoice) < Len(invoices)
    /\ LET inv == invoices[Len(per_invoice) + 1]
       IN /\ ~ValidateRaises(inv)
          /\ per_invoice' = Append(per_invoice, validate_invoice(inv, seen_keys))
          /\ seen_keys' = SeenAfter(inv, seen_keys)
    /\ UNCHANGED <<invoices, pc, returned>>
    /\ UNCHANGED others

\* The iteration in which validate_invoice raises: the TypeError leaves
\* validate_invoices, which returns nothing.
StepRaises ==
    /\ pc = "loop"
    /\ Len(per_invoice) < Len(invoices)
    /\ ValidateRaises(invoices[Len(per_invoice) + 1])
    /\ pc' = "raised"
    /\ UNCHANGED <<invoices, seen_keys, per_invoice, returned>>
    /\ UNCHANGED others

\* Lines 97-116: the summary is built and the report returned.
Return ==
    /\ pc = "loop"
    /\ Len(per_invoice) = Len(invoices)
    /\ returned' = Append(returned, Report(invoices, per_invoice))
    /\ pc' = "idle"
    /\ UNCHANGED <<invoices, seen_keys, per_invoice>>
    /\ UNCHANGED others

Next == Call \/ Step \/ StepRaises \/ Return

Spec == Init /\ [][Next]_vars

InitRules ==
    /\ invoices \in RuleBatches
    /\ pc = "idle"
    /\ seen_keys = {}
    /\ per_invoice = <<>>
    /\ returned = <<>>
    /\ OthersIdle

SpecRules == InitRules /\ [][Next]_vars

InitAmounts ==
    /\ invoices \in AmountBatches
    /\ pc = "idle"
    /\ seen_keys = {}
    /\ per_invoice = <<>>
    /\ returned = <<>>
    /\ OthersIdle

SpecAmounts == InitAmounts /\ [][Next]_vars

\* Batches for the order of the invoices: two invoices with one key and
\* different totals, one with another key, one without a date and one whose
\* net_total is a string.
OrderInvoices ==
    {Invoice("INV-1", "2024-01-15", "ACME", "Buyer", "EUR",
             Num(1000), Num(190), gross, <<>>, "a.pdf") :
        gross \in {Num(1190), Num(1200)}}
    \cup {Invoice("INV-2", "2024-01-15", "ACME", "Buyer", "EUR",
                  Num(1000), Num(190), Num(1190), <<>>, "a.pdf"),
          Invoice("INV-1", NoneStr, "ACME", "Buyer", "EUR",
                  Num(1000), Num(190), Num(1190), <<>>, "a.pdf"),
          Invoice("INV-1", "2024-01-15", "ACME", "Buyer", "EUR",
                  TextAmt, Num(190), Num(1190), <<>>, "a.pdf")}

OrderBatches == UNION {[1..n -> OrderInvoices] : n \in 0..MaxBatch}

InitOrder ==
    /\ invoices \in OrderBatches
    /\ pc = "idle"
    /\ seen_keys = {}
    /\ per_invoice = <<>>
    /\ returned = <<>>
    /\ OthersIdle

SpecOrder == InitOrder /\ [][Next]_vars

\* ------------------------------------------------------------- parse_number

\* A string is the sequence of its characters; a parsed number is mant
\* divided by 10^frac (123456 with frac 2 is 1234.56).

MaxStr == 3   \* longest generated raw string

Digits == <<"0", "1", "2", "3", "4", "5", "6", "7", "8", "9">>

IsDigit(c) == \E i \in 1..Len(Digits) : Digits[i] = c

DigitValue(c) == (CHOOSE i \in 1..Len(Digits) : Digits[i] = c) - 1

Has(str, c) == \E i \in 1..Len(str) : str[i] = c

\* Every character other than a digit, a comma, a dot and a minus is dropped.
Cleaned(str) == SelectSeq(str, LAMBDA c : IsDigit(c) \/ c \in {",", ".", "-"})

Without(str, c) == SelectSeq(str, LAMBDA x : x # c)

Replaced(str, a, b) == [i \in 1..Len(str) |-> IF str[i] = a THEN b ELSE str[i]]

\* Both separators: the comma is a thousands separator (US convention).
SeparatorsUS(str) ==
    IF Has(str, ",") /\ Has(str, ".") THEN Without(str, ",")
    ELSE IF Has(str, ",") THEN Replaced(str, ",", ".")
    ELSE str

\* Both separators: the dot is a thousands separator and the comma the
\* decimal separator; a comma alone is the decimal separator.
Separators(str) ==
    IF Has(str, ",") /\ Has(str, ".") THEN Replaced(Without(str, "."), ",", ".")
    ELSE IF Has(str, ",") THEN Replaced(str, ",", ".")
    ELSE str

RECURSIVE DigitsValue(_)
DigitsValue(str) ==
    IF str = <<>> THEN 0
    ELSE 10 * DigitsValue(SubSeq(str, 1, Len(str) - 1)) + DigitValue(str[Len(str)])

Absent_ == [status |-> "absent"]

Value(mant, frac) == [status |-> "value", mant |-> mant, frac |-> frac]

\* float(str) of a string of digits, dots and minus signs; absent where
\* float raises ValueError.
FloatOf(str) ==
    LET negative == str # <<>> /\ str[1] = "-"
        body == IF negative THEN Tail(str) ELSE str
        dots == {i \in 1..Len(body) : body[i] = "."}
        digits == Without(body, ".")
    IN IF \/ digits = <<>>
          \/ Cardinality(dots) > 1
          \/ \E i \in 1..Len(digits) : ~IsDigit(digits[i])
       THEN Absent_
       ELSE LET frac == IF dots = {} THEN 0
                        ELSE Len(body) - (CHOOSE i \in dots : TRUE)
                mant == DigitsValue(digits)
            IN Value(IF negative THEN -mant ELSE mant, frac)

NoneRaw == [none |-> TRUE, text |-> <<>>]

Raw(str) == [none |-> FALSE, text |-> str]

\* parse_number(raw), as spec 4.1 states it.
parse_number(raw) ==
    IF raw.none \/ Cleaned(raw.text) = <<>> THEN Absent_
    ELSE FloatOf(Separators(Cleaned(raw.text)))

European == <<"1", ".", "2", "3", "4", ",", "5", "6">>

American == <<"1", ",", "2", "3", "4", ".", "5", "6">>

RawAlphabet == {"1", "5", ",", ".", "-", "E"}

\* None, every string of up to MaxStr characters of the alphabet, and the
\* amounts of the examples.
ParseInputs ==
    {NoneRaw}
    \cup {Raw(str) : str \in UNION {[1..n -> RawAlphabet] : n \in 0..MaxStr}}
    \cup {Raw(European), Raw(American), Raw(<<"E", "U", "R", " ", "1", "2", ",", "5">>)}

InitParse ==
    /\ invoices = <<>>
    /\ pc = "idle"
    /\ seen_keys = {}
    /\ per_invoice = <<>>
    /\ returned = <<>>
    /\ runs = <<>>
    /\ arg \in ParseInputs
    /\ out = NoCall

\* One call parse_number(arg).
ParseNumber ==
    /\ out = NoCall
    /\ out' = parse_number(arg)
    /\ UNCHANGED <<invoices, pc, seen_keys, per_invoice, returned, arg, runs>>

NextParse == ParseNumber

SpecParse == InitParse /\ [][NextParse]_vars

\* ---------------------------------------------------------- _search_patterns

RangeOf(seq) == {seq[i] : i \in 1..Len(seq)}

\* One registered regular expression: its source text, the number of its
\* capture groups, and whether its last group is (.+), which may capture
\* blanks, or a character class without blanks.
Pattern(re, groups, last) == [re |-> re, groups |-> groups, last |-> last]

InvoiceDateRe == "Invoice\\s*Date[:\\s]*([\\d\\.\\/\\-]+)"

DateRe == "Date[:\\s]*([\\d\\.\\/\\-]+)"

\* The table of registered patterns (the u-umlaut of the delivery_date
\* pattern is written ue).
PATTERNS ==
    [invoice_number |->
        [de |-> << Pattern("Rechnungsnummer[:\\s]*([A-Za-z0-9\\-\\/]+)", 1, "class"),
                   Pattern("Rechnung\\s*Nr\\.?\\s*([A-Za-z0-9\\-\\/]+)", 1, "class"),
                   Pattern("AUFNR([0-9A-Za-z\\-\\/]+)", 1, "class") >>,
         en |-> << Pattern("Invoice\\s*(Number|No\\.?|#)[:\\s]*([A-Za-z0-9\\-\\/]+)", 2, "class") >>],
     invoice_date |->
        [de |-> << Pattern("vom\\s+([\\d\\.\\/\\-]+)", 1, "class"),
                   Pattern("Rechnungsdatum[:\\s]*([\\d\\.\\/\\-]+)", 1, "class") >>,
         en |-> << Pattern(InvoiceDateRe, 1, "class"),
                   Pattern(DateRe, 1, "class") >>],
     customer_number |->
        [de |-> << Pattern("Unsere\\s+Kundennummer\\s*([\\dA-Za-z\\-\\/]+)", 1, "class") >>,
         en |-> << Pattern("Customer\\s*(No\\.?|Number)[:\\s]*([\\dA-Za-z\\-\\/]+)", 2, "class") >>],
     end_customer_number |->
        [de |-> << Pattern("Endkundennummer\\s*([\\dA-Za-z\\-\\/]+)", 1, "class") >>,
         en |-> << Pattern("End\\s*Customer\\s*(No\\.?|Number)[:\\s]*([\\dA-Za-z\\-\\/]+)", 2, "class") >>],
     payment_terms |->
        [de |-> << Pattern("Zahlungsbedingungen\\s*(.+)", 1, "any") >>,
         en |-> << Pattern("Payment\\s*Terms\\s*(.+)", 1, "any") >>],
     delivery_terms |->
        [de |-> << Pattern("Lieferbedingungen\\s*(.+)", 1, "any") >>,
         en |-> << Pattern("Delivery\\s*Terms\\s*(.+)", 1, "any") >>],
     delivery_date |->
        [de |-> << Pattern("Gewuenschtes\\s+Lieferdatum\\s*(.+)", 1, "any") >>,
         en |-> << Pattern("Delivery\\s*Date\\s*(.+)", 1, "any") >>],
     currency |->
        [de |-> << Pattern("Preis\\s+in\\s+([A-Z]{3})", 1, "class") >>,
         en |-> << Pattern("Currency[:\\s]*([A-Z]{3})", 1, "class") >>]]

\* PATTERNS.get(field, {}).get(lang, [])
Registered(field, lang) ==
    IF field \in DOMAIN PATTERNS /\ lang \in DOMAIN PATTERNS[field]
    THEN PATTERNS[field][lang]
    ELSE <<>>

\* The "en" list first.
CandidatesEnFirst(field, lang) == Registered(field, "en") \o Registered(field, lang)

Candidates(field, lang) == Registered(field, lang) \o Registered(field, "en")

\* re.search(pattern, text): None, or a match object with its groups.
NoMatch == [matched |-> FALSE]

Match(groups) == [matched |-> TRUE, groups |-> groups]

IsBlank(c) == c \in {" ", "\n", "\t"}

\* str.strip()
RECURSIVE Strip(_)
Strip(str) ==
    IF str = <<>> THEN <<>>
    ELSE IF IsBlank(Head(str)) THEN Strip(Tail(str))
    ELSE IF IsBlank(str[Len(str)]) THEN Strip(SubSeq(str, 1, Len(str) - 1))
    ELSE str

Found(str) == [status |-> "value", text |-> str]

\* The loop over the candidates from index i on; text gives for each regular
\* expression the outcome of re.search on the document text.
RECURSIVE SearchFrom(_, _, _)
SearchFrom(candidates, text, i) ==
    IF i > Len(candidates) THEN Absent_
    ELSE LET m == text[candidates[i].re]
             groups == IF m.matched THEN SelectSeq(m.groups, LAMBDA g : g # <<>>)
                       ELSE <<>>
         IN IF m.matched /\ groups # <<>>
            THEN Found(Strip(groups[Len(groups)]))
            ELSE SearchFrom(candidates, text, i + 1)

_search_patterns(field, lang, text) == SearchFrom(Candidates(field, lang), text, 1)

\* detect_language returns whatever langdetect reports, "en" on failure.
Languages == {"de", "en", "fr"}

\* The fields extract looks up, and one with no registered patterns.
Fields == DOMAIN PATTERNS \cup {"seller_name"}

\* What the first group of a two-group pattern captures (its keyword).
Keyword == <<"N", "o">>

\* What a character-class group can capture: no blanks, at least one character.
ClassCaptures == {<<"7">>, <<"A", "-", "1">>}

\* What (.+) can capture: at least one character of one line.
AnyCaptures == {<<"7">>, <<"3", "0", " ", "d", " ">>, <<" ">>}

MatchesOf(p) ==
    {Match(IF p.groups = 1 THEN <<v>> ELSE <<Keyword, v>>) :
        v \in IF p.last = "any" THEN AnyCaptures ELSE ClassCaptures}

AllPatterns(field) ==
    UNION {RangeOf(Registered(field, lang)) : lang \in Languages}

\* A text matched by InvoiceDateRe holds "Date" followed by a date, so DateRe
\* matches it too.
Implied == {<<InvoiceDateRe, DateRe>>}

\* A document text, seen through re.search: for each regular expression of
\* the field, whether it matches and what its groups capture.
Texts(field) ==
    LET res == {p.re : p \in AllPatterns(field)}
        of(re) == CHOOSE p \in AllPatterns(field) : p.re = re
    IN {t \in [res -> UNION {MatchesOf(p) \cup {NoMatch} : p \in AllPatterns(field)}] :
           /\ \A re \in res : t[re] \in MatchesOf(of(re)) \cup {NoMatch}
           /\ \A pair \in Implied :
                  pair[1] \in res /\ t[pair[1]].matched => t[pair[2]].matched}

SearchInputs ==
    UNION {{[field |-> field, lang |-> lang, text |-> text] :
               lang \in Languages, text \in Texts(field)} : field \in Fields}

InitSearch ==
    /\ invoices = <<>>
    /\ pc = "idle"
    /\ seen_keys = {}
    /\ per_invoice = <<>>
    /\ returned = <<>>
    /\ runs = <<>>
    /\ arg \in SearchInputs
    /\ out = NoCall

\* One call _search_patterns(arg.field, arg.lang, arg.text).
SearchPatterns ==
    /\ out = NoCall
    /\ out' = _search_patterns(arg.field, arg.lang, arg.text)
    /\ UNCHANGED <<invoices, pc, seen_keys, per_invoice, returned, arg, runs>>

NextSearch == SearchPatterns

SpecSearch == InitSearch /\ [][NextSearch]_vars

\* ------------------------------------------------------ concurrent requests

\* POST /validate-json is a plain def endpoint: the server runs each request
\* in a worker thread, so two validate_invoices calls can be in progress at
\* once, their loop iterations interleaved.

MaxConcBatch == 2   \* invoices in the batch of one request

RunIds == {1, 2}

\* The request bodies: two invoices with one key and different totals, one
\* with another key and one without a date.
ConcInvoices ==
    {Invoice("INV-1", "2024-01-15", "ACME", "Buyer", "EUR",
             Num(1000), Num(190), gross, <<>>, NoneStr) :
        gross \in {Num(1190), Num(1200)}}
    \cup {Invoice("INV-2", "2024-01-15", "ACME", "Buyer", "EUR",
                  Num(1000), Num(190), Num(1190), <<>>, NoneStr),
          Invoice("INV-1", NoneStr, "ACME", "Buyer", "EUR",
                  Num(1000), Num(190), Num(1190), <<>>, NoneStr)}

ConcBatches == UNION {[1..n -> ConcInvoices] : n \in 0..MaxConcBatch}

\* One request: its batch, where its call stands, the locals seen_keys and
\* per_invoice of its validate_invoices call, and what it returned.
Run(batch, at, seen, results, report) ==
    [batch |-> batch, pc |-> at, seen_keys |-> seen, per_invoice |-> results,
     report |-> report]

NoReport == [summary |-> "none"]

\* One key set for all calls (a module-level set).
SharedKeys(rs, r) == UNION {rs[q].seen_keys : q \in DOMAIN rs}

\* seen_keys as the call of request r reads it: its own local.
KeysOf(rs, r) == rs[r].seen_keys

InitConc ==
    /\ invoices = <<>>
    /\ pc = "idle"
    /\ seen_keys = {}
    /\ per_invoice = <<>>
    /\ returned = <<>>
    /\ arg = NoCall
    /\ out = NoCall
    /\ runs \in [RunIds -> {Run(batch, "idle", {}, <<>>, NoReport) : batch \in ConcBatches}]

Rest == <<invoices, pc, seen_keys, per_invoice, returned, arg, out>>

\* Request r enters validate_invoices: lines 90-91.
ConcCall(r) ==
    /\ runs[r].pc = "idle"
    /\ runs' = [runs EXCEPT ![r].pc = "loop",
                            ![r].seen_keys = FreshKeys(runs[r].seen_keys),
                            ![r].per_invoice = <<>>]
    /\ UNCHANGED Rest

\* One loop iteration of request r: lines 93-95.
ConcStep(r) ==
    /\ runs[r].pc = "loop"
    /\ Len(runs[r].per_invoice) < Len(runs[r].batch)
    /\ LET inv == runs[r].batch[Len(runs[r].per_invoice) + 1]
           seen == KeysOf(runs, r)
       IN runs' = [runs EXCEPT
                     ![r].per_invoice = Append(@, validate_invoice(inv, seen)),
                     ![r].seen_keys = SeenAfter(inv, seen)]
    /\ UNCHANGED Rest

\* Request r builds its summary and returns: lines 97-116, api.py line 25.
ConcReturn(r) ==
    /\ runs[r].pc = "loop"
    /\ Len(runs[r].per_invoice) = Len(runs[r].batch)
    /\ runs' = [runs EXCEPT ![r].pc = "done",
                            ![r].report = Report(runs[r].batch, runs[r].per_invoice)]
    /\ UNCHANGED Rest

NextConc == \E r \in RunIds : ConcCall(r) \/ ConcStep(r) \/ ConcReturn(r)

SpecConc == InitConc /\ [][NextConc]_vars

\* ------------------------------------------------------------------ claims

Range(f) == {f[k] : k \in DOMAIN f}

\* The three key components as the invoice holds them.
Triple(inv) == <<inv.invoice_number, inv.invoice_date, inv.seller_name>>

\* Present and non-empty.
Filled(s) == s # NoneStr /\ s # ""

Complete(inv) ==
    Filled(inv.invoice_number) /\ Filled(inv.invoice_date) /\ Filled(inv.seller_name)

Flagged(result) == DuplicateCode \in Range(result.errors)

\* C1: after any number of invoices of the batch, the k-th result carries
\* duplicate_invoice exactly when the k-th invoice has all three key
\* components present and non-empty and an earlier invoice of the batch has
\* the equal triple; so a first occurrence is never flagged and every later
\* occurrence is, whatever lies between them.
C1_DuplicateIffEarlierEqualKey ==
    \A k \in 1..Len(per_invoice) :
        Flagged(per_invoice[k])
        <=> /\ Complete(invoices[k])
            /\ \E j \in 1..(k - 1) : Triple(invoices[j]) = Triple(invoices[k])

\* Three invoices, the first and the third with the same complete key and a
\* different complete key between them: the third is flagged, the others not.
C1_Witness ==
    /\ Len(per_invoice) = 3
    /\ Complete(invoices[1]) /\ Complete(invoices[2])
    /\ Triple(invoices[1]) = Triple(invoices[3])
    /\ Triple(invoices[1]) # Triple(invoices[2])
    /\ Flagged(per_invoice[3])
    /\ ~Flagged(per_invoice[1]) /\ ~Flagged(per_invoice[2])

\* C2: after any prefix of the batch the duplicate-key set is exactly the
\* set of triples of the processed invoices whose three components are all
\* present and non-empty, and an invoice lacking a component is not flagged.
C2_KeySetIsCompleteTriples ==
    /\ seen_keys = {Triple(invoices[k]) :
                       k \in {j \in 1..Len(per_invoice) : Complete(invoices[j])}}
    /\ \A k \in 1..Len(per_invoice) :
           ~Complete(invoices[k]) => ~Flagged(per_invoice[k])

\* A complete invoice and then twice the same incomplete one have been
\* processed: one key is registered and the incomplete ones are not flagged.
C2_Witness ==
    /\ Len(per_invoice) = 3
    /\ Complete(invoices[1])
    /\ ~Complete(invoices[2])
    /\ invoices[3] = invoices[2]
    /\ Cardinality(seen_keys) = 1
    /\ ~Flagged(per_invoice[3])

\* C3: every report returned for the same ordered batch is the same report
\* (summary and per-invoice results), so no run is affected by the keys that
\* an earlier run registered.
C3_RerunSameReport ==
    \A i, j \in 1..Len(returned) : returned[i] = returned[j]

\* Two runs have returned for a batch with a complete key; the second run
\* flags nothing in its first result.
C3_Witness ==
    /\ Len(returned) = 2
    /\ Len(invoices) >= 2
    /\ Complete(invoices[1])
    /\ Triple(invoices[1]) = Triple(invoices[2])
    /\ ~Flagged(returned[2].results[1])
    /\ Flagged(returned[2].results[2])

Category(e) == e[1]

\* The tokens of a code after its category, separators left out.
Detail(e) == SelectSeq(SubSeq(e, 2, Len(e)), LAMBDA t : t \notin {":", " "})

Categories == {"missing_field", "format_error", "business_rule_failed", "anomaly"}

\* <category>:<detail>, the detail directly after the colon.
WellFormed(e) ==
    \/ e = <<"duplicate_invoice">>
    \/ /\ Len(e) >= 3
       /\ e[1] \in Categories
       /\ e[2] = ":"
       /\ \A i \in 3..Len(e) : e[i] \notin {":", " "}

IsText(a) == a.kind = "text"

\* C4: validate_invoice returns a result for every invoice, and a total that
\* is present but not numeric is reported as format_error:<field>_not_numeric
\* in that result.
C4_ValidateNeverRaises ==
    /\ pc # "raised"
    /\ \A k \in 1..Len(per_invoice) :
           \A i \in 1..Len(TotalFields) :
               IsText(invoices[k][TotalFields[i]])
               => \E e \in Range(per_invoice[k].errors) :
                      Category(e) = "format_error"
                      /\ Detail(e) = <<TotalFields[i], "_not_numeric">>

\* C5: every error code of every result is duplicate_invoice or
\* <category>:<detail> with one of the four categories and the detail
\* directly after the colon.
C5_CodesWellFormed ==
    \A k \in 1..Len(per_invoice) :
        \A e \in Range(per_invoice[k].errors) : WellFormed(e)

\* The checks in rule order, as <<category, detail>>.
RuleOrder ==
    << <<"missing_field", <<"invoice_number">> >>,
       <<"missing_field", <<"invoice_date">> >>,
       <<"missing_field", <<"seller_name">> >>,
       <<"missing_field", <<"buyer_name">> >>,
       <<"missing_field", <<"net_total">> >>,
       <<"missing_field", <<"tax_amount">> >>,
       <<"missing_field", <<"gross_total">> >>,
       <<"format_error", <<"unsupported_currency">> >>,
       <<"format_error", <<"net_total", "_not_numeric">> >>,
       <<"format_error", <<"tax_amount", "_not_numeric">> >>,
       <<"format_error", <<"gross_total", "_not_numeric">> >>,
       <<"business_rule_failed", <<"net_total_mismatch_line_items">> >>,
       <<"business_rule_failed", <<"totals_mismatch">> >>,
       <<"anomaly", <<"net_total", "_negative">> >>,
       <<"anomaly", <<"tax_amount", "_negative">> >>,
       <<"anomaly", <<"gross_total", "_negative">> >>,
       <<"duplicate_invoice", <<>> >> >>

Rank(e) ==
    IF \E r \in 1..Len(RuleOrder) : RuleOrder[r] = <<Category(e), Detail(e)>>
    THEN CHOOSE r \in 1..Len(RuleOrder) : RuleOrder[r] = <<Category(e), Detail(e)>>
    ELSE 0

Present(a) == a.kind # "none"

SupportedCurrency(c) == c \in {"EUR", "USD", "INR", "eur", "usd", "inr"}

RECURSIVE SumPresent(_)
SumPresent(items) ==
    IF items = <<>> THEN 0
    ELSE (IF Present(items[1]) THEN items[1].val ELSE 0) + SumPresent(Tail(items))

Differ(a, b) == a - b > 5 \/ b - a > 5

\* Whether the check of rank r fails for the k-th invoice of the batch.
CheckFails(r, k) ==
    LET inv == invoices[k]
    IN CASE r = 1 -> ~Filled(inv.invoice_number)
         [] r = 2 -> ~Filled(inv.invoice_date)
         [] r = 3 -> ~Filled(inv.seller_name)
         [] r = 4 -> ~Filled(inv.buyer_name)
         [] r = 5 -> ~Present(inv.net_total)
         [] r = 6 -> ~Present(inv.tax_amount)
         [] r = 7 -> ~Present(inv.gross_total)
         [] r = 8 -> Filled(inv.currency) /\ ~SupportedCurrency(inv.currency)
         [] r = 9 -> IsText(inv.net_total)
         [] r = 10 -> IsText(inv.tax_amount)
         [] r = 11 -> IsText(inv.gross_total)
         [] r = 12 -> /\ inv.line_items # <<>>
                      /\ Present(inv.net_total)
                      /\ SumPresent(inv.line_items) # 0
                      /\ Differ(SumPresent(inv.line_items), inv.net_total.val)
         [] r = 13 -> /\ Present(inv.net_total) /\ Present(inv.tax_amount)
                      /\ Present(inv.gross_total)
                      /\ Differ(inv.net_total.val + inv.tax_amount.val,
                                inv.gross_total.val)
         [] r = 14 -> Present(inv.net_total) /\ inv.net_total.val < 0
         [] r = 15 -> Present(inv.tax_amount) /\ inv.tax_amount.val < 0
         [] r = 16 -> Present(inv.gross_total) /\ inv.gross_total.val < 0
         [] r = 17 -> /\ Complete(inv)
                      /\ \E j \in 1..(k - 1) : Triple(invoices[j]) = Triple(inv)

\* C6: in every result the codes stand in the rule order (completeness in
\* field order, format, line items, totals, anomaly, duplicate), and every
\* failing check has its code in the result, whatever failed before it.
C6_RuleOrderNoShortCircuit ==
    \A k \in 1..Len(per_invoice) :
        LET errors == per_invoice[k].errors
        IN /\ \A i \in 1..Len(errors) : Rank(errors[i]) > 0
           /\ \A i, j \in 1..Len(errors) :
                  i < j => Rank(errors[i]) < Rank(errors[j])
           /\ \A r \in 1..Len(RuleOrder) :
                  CheckFails(r, k) => \E i \in 1..Len(errors) : Rank(errors[i]) = r

\* A result with a code of every rule group: a missing field, the currency,
\* the line items, the totals, an anomaly and the duplicate.
C6_Witness ==
    \E k \in 1..Len(per_invoice) :
        {4, 8, 12, 13, 14, 17} \subseteq
            {Rank(per_invoice[k].errors[i]) : i \in 1..Len(per_invoice[k].errors)}

\* C7: a result is valid exactly when its error list is empty.
C7_ValidIffNoErrors ==
    \A k \in 1..Len(per_invoice) :
        per_invoice[k].is_valid <=> per_invoice[k].errors = <<>>

\* A result whose only error is duplicate_invoice, and which is invalid.
C7_Witness ==
    \E k \in 1..Len(per_invoice) :
        per_invoice[k].errors = <<DuplicateCode>> /\ ~per_invoice[k].is_valid

AllNumeric(inv) ==
    \A i \in 1..Len(TotalFields) : ~IsText(inv[TotalFields[i]])

NumberOf(S) == Cardinality(S)

\* C8: every returned report has one result per invoice of the batch, in
\* the order of the batch, and a summary with total_invoices the length of
\* the batch, valid_invoices and invalid_invoices the numbers of valid and
\* invalid results, which add up to the total; no batch of invoices with
\* numeric or absent totals makes the call fail, the empty batch and a batch
\* without a valid invoice included.
C8_SummaryCounts ==
    /\ \A n \in 1..Len(returned) :
           LET results == returned[n].results
               summary == returned[n].summary
           IN /\ Len(results) = Len(invoices)
              /\ \A k \in 1..Len(results) :
                     /\ results[k].invoice_id
                        = (IF Filled(invoices[k].invoice_number)
                           THEN invoices[k].invoice_number
                           ELSE IF Filled(invoices[k].source_file)
                           THEN invoices[k].source_file ELSE "unknown")
                     /\ Flagged(results[k])
                        <=> /\ Complete(invoices[k])
                            /\ \E j \in 1..(k - 1) :
                                   Triple(invoices[j]) = Triple(invoices[k])
              /\ summary.total_invoices = Len(invoices)
              /\ summary.valid_invoices
                 = NumberOf({k \in 1..Len(results) : results[k].is_valid})
              /\ summary.invalid_invoices
                 = NumberOf({k \in 1..Len(results) : ~results[k].is_valid})
              /\ summary.valid_invoices + summary.invalid_invoices
                 = summary.total_invoices
    /\ pc = "raised" => \E k \in 1..Len(invoices) : ~AllNumeric(invoices[k])

\* A report for three invoices none of which is valid.
C8_Witness ==
    /\ Len(returned) >= 1
    /\ Len(invoices) = 3
    /\ returned[1].summary.total_invoices = 3
    /\ returned[1].summary.valid_invoices = 0
    /\ returned[1].summary.invalid_invoices = 3

\* The occurrences of code e in the error lists of the results.
Occurrences(results, e) ==
    {<<k, i>> \in (1..Len(results)) \X (1..17) :
        i <= Len(results[k].errors) /\ results[k].errors[i] = e}

RECURSIVE SumValues(_, _)
SumValues(f, S) ==
    IF S = {} THEN 0
    ELSE LET x == CHOOSE y \in S : TRUE IN f[x] + SumValues(f, S \ {x})

RECURSIVE TotalErrors(_)
TotalErrors(results) ==
    IF results = <<>> THEN 0
    ELSE Len(Head(results).errors) + TotalErrors(Tail(results))

\* C9: in every returned summary the keys of error_counts are exactly the
\* codes that occur in some result, each value is the number of occurrences
\* of its code over all error lists, and the values add up to the total
\* length of the error lists.
C9_ErrorCounts ==
    \A n \in 1..Len(returned) :
        LET results == returned[n].results
            counts == returned[n].summary.error_counts
        IN /\ DOMAIN counts
              = UNION {Range(results[k].errors) : k \in 1..Len(results)}
           /\ \A e \in DOMAIN counts :
                  counts[e] = Cardinality(Occurrences(results, e))
           /\ SumValues(counts, DOMAIN counts) = TotalErrors(results)

\* A summary with two codes, one of them counted three times.
C9_Witness ==
    /\ Len(returned) >= 1
    /\ LET counts == returned[1].summary.error_counts
       IN /\ Cardinality(DOMAIN counts) >= 2
          /\ \E e \in DOMAIN counts : counts[e] = 3

RequiredStrings == {"invoice_number", "invoice_date", "seller_name", "buyer_name"}

RequiredFields == RequiredStrings \cup {"net_total", "tax_amount", "gross_total"}

\* A required field is absent: a string that is None or empty, a total that
\* is None.
Absent(inv, f) ==
    IF f \in RequiredStrings THEN ~Filled(inv[f]) ELSE ~Present(inv[f])

MissingErrors(result) ==
    {i \in 1..Len(result.errors) : Category(result.errors[i]) = "missing_field"}

\* C10: a result has one missing_field error for each absent required field
\* and none for a present one, so their number is the number of absent
\* required fields; with all seven absent there are 7 and the result is
\* invalid.
C10_MissingFieldPerAbsentField ==
    \A k \in 1..Len(per_invoice) :
        LET result == per_invoice[k]
            absent == {f \in RequiredFields : Absent(invoices[k], f)}
        IN /\ \A f \in RequiredFields :
                  Cardinality({i \in MissingErrors(result) :
                                  Detail(result.errors[i]) = <<f>>})
                  = (IF f \in absent THEN 1 ELSE 0)
           /\ Cardinality(MissingErrors(result)) = Cardinality(absent)
           /\ absent = RequiredFields
              => Cardinality(MissingErrors(result)) = 7 /\ ~result.is_valid

\* A result for an invoice with all seven required fields absent, one of
\* them an empty string.
C10_Witness ==
    \E k \in 1..Len(per_invoice) :
        /\ \A f \in RequiredFields : Absent(invoices[k], f)
        /\ invoices[k].invoice_date = ""
        /\ Cardinality(MissingErrors(per_invoice[k])) = 7

HasCode(result, category, detail) ==
    \E e \in Range(result.errors) : Category(e) = category /\ Detail(e) = detail

TimesCode(result, category, detail) ==
    Cardinality({i \in 1..Len(result.errors) :
                    /\ Category(result.errors[i]) = category
                    /\ Detail(result.errors[i]) = detail})

\* C11: a result has business_rule_failed:totals_mismatch (once) exactly
\* when net_total, tax_amount and gross_total are all present and
\* net_total + tax_amount differs from gross_total by more than 0.5; so it
\* has none at a difference of exactly 0.5 or with a total absent, none for
\* 100.0 + 19.0 against 119.0, and exactly that error against 120.0.
C11_TotalsMismatchIffBeyondTolerance ==
    \A k \in 1..Len(per_invoice) :
        LET inv == invoices[k]
            result == per_invoice[k]
            fails == /\ Present(inv.net_total) /\ Present(inv.tax_amount)
                     /\ Present(inv.gross_total)
                     /\ \/ inv.net_total.val + inv.tax_amount.val - inv.gross_total.val > 5
                        \/ inv.gross_total.val - inv.net_total.val - inv.tax_amount.val > 5
        IN /\ TimesCode(result, "business_rule_failed", <<"totals_mismatch">>)
              = (IF fails THEN 1 ELSE 0)
           /\ (/\ inv.net_total = Num(1000) /\ inv.tax_amount = Num(190)
               /\ inv.gross_total = Num(1200) /\ inv.line_items = <<>>)
              => /\ Len(result.errors) = 1
                 /\ HasCode(result, "business_rule_failed", <<"totals_mismatch">>)

\* The result for 100.0 + 19.0 against 120.0: exactly the error.
C11_Witness ==
    /\ Len(per_invoice) = 1
    /\ invoices[1].net_total = Num(1000)
    /\ invoices[1].tax_amount = Num(190)
    /\ invoices[1].gross_total = Num(1200)
    /\ per_invoice[1].errors = <<ErrorCode("business_rule_failed", <<"totals_mismatch">>)>>

\* C12: a result has business_rule_failed:net_total_mismatch_line_items
\* (once) exactly when the invoice has a line item, net_total is present,
\* the present line totals add up to a non-zero sum, and the sum differs
\* from net_total by more than 0.5; with a sum of zero there is no such
\* error whatever net_total is.
C12_LineItemMismatchIffNonZeroSumBeyondTolerance ==
    \A k \in 1..Len(per_invoice) :
        LET inv == invoices[k]
            result == per_invoice[k]
            total == SumPresent(inv.line_items)
            fails == /\ Len(inv.line_items) >= 1
                     /\ Present(inv.net_total)
                     /\ total # 0
                     /\ (total - inv.net_total.val > 5 \/ inv.net_total.val - total > 5)
        IN /\ TimesCode(result, "business_rule_failed", <<"net_total_mismatch_line_items">>)
              = (IF fails THEN 1 ELSE 0)
           /\ total = 0
              => ~HasCode(result, "business_rule_failed", <<"net_total_mismatch_line_items">>)

\* A result for net_total 100.0 with a single line item whose total is
\* absent: the sum is zero and there is no line-item error.
C12_Witness ==
    /\ Len(per_invoice) = 1
    /\ invoices[1].net_total = Num(1000)
    /\ invoices[1].line_items = <<NoneAmt>>
    /\ ~HasCode(per_invoice[1], "business_rule_failed", <<"net_total_mismatch_line_items">>)

\* C13 as stated: anomaly:<field>_negative exactly for a present, negative
\* total, and for net_total -5.0 with tax_amount and gross_total present and
\* consistent with it (net_total + tax_amount within 0.5 of gross_total) the
\* only anomaly code is anomaly:net_total_negative.
C13_Original ==
    \A k \in 1..Len(per_invoice) :
        LET inv == invoices[k]
            result == per_invoice[k]
            anomalies == {i \in 1..Len(result.errors) :
                             Category(result.errors[i]) = "anomaly"}
        IN /\ \A i \in 1..Len(TotalFields) :
                  HasCode(result, "anomaly", <<TotalFields[i], "_negative">>)
                  <=> (Present(inv[TotalFields[i]]) /\ inv[TotalFields[i]].val < 0)
           /\ (/\ inv.net_total = Num(-50)
               /\ Present(inv.tax_amount) /\ Present(inv.gross_total)
               /\ ~Differ(inv.net_total.val + inv.tax_amount.val, inv.gross_total.val))
              => /\ Cardinality(anomalies) = 1
                 /\ HasCode(result, "anomaly", <<"net_total", "_negative">>)

\* C13 (amended): a result has anomaly:<field>_negative (once) for a total
\* exactly when that total is present and negative; for net_total -5.0 with
\* tax_amount and gross_total present, not negative and consistent with it,
\* the only anomaly code is anomaly:net_total_negative.
C13_AnomalyIffNegative ==
    \A k \in 1..Len(per_invoice) :
        LET inv == invoices[k]
            result == per_invoice[k]
            anomalies == {i \in 1..Len(result.errors) :
                             Category(result.errors[i]) = "anomaly"}
        IN /\ \A i \in 1..Len(TotalFields) :
                  TimesCode(result, "anomaly", <<TotalFields[i], "_negative">>)
                  = (IF Present(inv[TotalFields[i]]) /\ inv[TotalFields[i]].val < 0
                     THEN 1 ELSE 0)
           /\ (/\ inv.net_total = Num(-50)
               /\ Present(inv.tax_amount) /\ inv.tax_amount.val >= 0
               /\ Present(inv.gross_total) /\ inv.gross_total.val >= 0
               /\ ~Differ(inv.net_total.val + inv.tax_amount.val, inv.gross_total.val))
              => /\ Cardinality(anomalies) = 1
                 /\ HasCode(result, "anomaly", <<"net_total", "_negative">>)

\* The result for net_total -5.0, tax_amount 19.0, gross_total 14.0.
C13_Witness ==
    /\ Len(per_invoice) = 1
    /\ invoices[1].net_total = Num(-50)
    /\ invoices[1].tax_amount = Num(190)
    /\ invoices[1].gross_total = Num(140)
    /\ HasCode(per_invoice[1], "anomaly", <<"net_total", "_negative">>)
    /\ ~HasCode(per_invoice[1], "business_rule_failed", <<"totals_mismatch">>)

\* Two parsed numbers are the same amount.
SameAmount(a, b) ==
    /\ a.status = "value" /\ b.status = "value"
    /\ LET f == IF a.frac > b.frac THEN a.frac ELSE b.frac
           Pow10[n \in 0..f] == IF n = 0 THEN 1 ELSE 10 * Pow10[n - 1]
       IN a.mant * Pow10[f - a.frac] = b.mant * Pow10[f - b.frac]

Returned(raw) == arg = raw /\ out # NoCall

Tried(field, lang) ==
    IF field \notin DOMAIN PATTERNS THEN <<>>
    ELSE (IF lang \in DOMAIN PATTERNS[field] THEN PATTERNS[field][lang] ELSE <<>>)
         \o PATTERNS[field]["en"]

LastNonEmpty(groups) ==
    groups[CHOOSE k \in 1..Len(groups) :
               /\ groups[k] # <<>>
               /\ \A j \in (k + 1)..Len(groups) : groups[j] = <<>>]

\* C15: _search_patterns returns the stripped last non-empty group of the
\* first pattern that matches, trying the detected language's patterns and
\* then the "en" patterns in registration order, and absent when none
\* matches, the field is unregistered or only the "en" list exists and fails.
C15_FirstMatchInOrder ==
    out # NoCall /\ arg \in SearchInputs =>
        LET tried == Tried(arg.field, arg.lang)
            hits == {i \in 1..Len(tried) : arg.text[tried[i].re].matched}
        IN IF hits = {} THEN out = Absent_
           ELSE LET first == CHOOSE i \in hits : \A j \in hits : i <= j
                IN out = Found(Strip(LastNonEmpty(arg.text[tried[first].re].groups)))

\* A German text where the third "de" pattern and the "en" pattern match with
\* different values: the "de" value is returned.
C15_Witness ==
    /\ arg \in SearchInputs
    /\ arg.field = "invoice_number" /\ arg.lang = "de"
    /\ ~arg.text[PATTERNS.invoice_number.de[1].re].matched
    /\ ~arg.text[PATTERNS.invoice_number.de[2].re].matched
    /\ arg.text[PATTERNS.invoice_number.de[3].re] = Match(<< <<"7">> >>)
    /\ arg.text[PATTERNS.invoice_number.en[1].re] = Match(<<Keyword, <<"A", "-", "1">> >>)
    /\ out = Found(<<"7">>)

\* The number of duplicate_invoice errors a report counts.
DuplicatesReported(report) ==
    IF DuplicateCode \in DOMAIN report.summary.error_counts
    THEN report.summary.error_counts[DuplicateCode]
    ELSE 0

Permuted(batch, p) == [k \in 1..Len(batch) |-> batch[p[k]]]

\* The last call has returned and its key set is still in place.
JustReturned == pc = "idle" /\ returned # <<>>

\* C16: the number of duplicate_invoice errors of a returned report is the
\* number of invoices with a complete key minus the number of distinct
\* complete keys; that number, total_invoices and the final key set are the
\* same for every permutation of the batch.
C16_DuplicateCountOrderFree ==
    JustReturned =>
        LET report == returned[Len(returned)]
            complete == {k \in 1..Len(invoices) : Complete(invoices[k])}
            keys == {Triple(invoices[k]) : k \in complete}
        IN /\ DuplicatesReported(report) = Cardinality(complete) - Cardinality(keys)
           /\ DuplicatesReported(report)
              = Cardinality({k \in 1..Len(invoices) : Flagged(report.results[k])})
           /\ seen_keys = keys
           /\ \A p \in Permutations(1..Len(invoices)) :
                  LET other == validate_invoices(Permuted(invoices, p))
                  IN /\ DuplicatesReported(other) = DuplicatesReported(report)
                     /\ other.summary.total_invoices = report.summary.total_invoices
                     /\ KeysAfter(Permuted(invoices, p), Len(invoices)) = seen_keys

\* Two different invoices with the same complete key have been validated:
\* one duplicate is reported either way, the second invoice carries the flag
\* in this order and the first one carries it in the reversed order.
C16_Witness ==
    /\ JustReturned
    /\ Len(invoices) = 2
    /\ invoices[1] # invoices[2]
    /\ Complete(invoices[1])
    /\ Triple(invoices[1]) = Triple(invoices[2])
    /\ DuplicatesReported(returned[Len(returned)]) = 1
    /\ Flagged(returned[Len(returned)].results[2])
    /\ LET other == validate_invoices(<<invoices[2], invoices[1]>>)
       IN /\ DuplicatesReported(other) = 1
          /\ Flagged(other.results[2])
          /\ ~Flagged(other.results[1])

\* C17: whatever the interleaving of two requests, the key set of a request
\* holds exactly the complete keys of the invoices that request has
\* processed, an invoice is flagged only for an earlier invoice of its own
\* batch, and a request that has returned returned the report of its batch
\* validated alone.
C17_RunsAreIsolated ==
    \A r \in DOMAIN runs :
        LET run == runs[r]
            done == 1..Len(run.per_invoice)
        IN /\ run.seen_keys = {Triple(run.batch[k]) : k \in {j \in done : Complete(run.batch[j])}}
           /\ \A k \in done :
                  Flagged(run.per_invoice[k])
                  <=> /\ Complete(run.batch[k])
                      /\ \E j \in 1..(k - 1) : Triple(run.batch[j]) = Triple(run.batch[k])
           /\ run.pc = "done" => run.report = validate_invoices(run.batch)

\* Request 2 has returned while request 1 is inside its loop; both began with
\* an invoice of the same complete key and neither flagged it.
C17_Witness ==
    /\ DOMAIN runs = RunIds
    /\ runs[1].pc = "loop" /\ Len(runs[1].per_invoice) = 1 /\ Len(runs[1].batch) = 2
    /\ runs[2].pc = "done" /\ Len(runs[2].batch) = 2
    /\ Complete(runs[1].batch[1])
    /\ Triple(runs[1].batch[1]) = Triple(runs[2].batch[1])
    /\ Triple(runs[1].batch[1]) \in runs[1].seen_keys \cap runs[2].seen_keys
    /\ ~Flagged(runs[1].per_invoice[1])
    /\ ~Flagged(runs[2].report.results[1])
    /\ Flagged(runs[2].report.results[2])

====
